---- MODULE Spec2Model ----
(***************************************************************************)
(* Model of safe-actions-state: the server-side guard createSafeAction,    *)
(* the retry helper withRetry and the client hook useSafeAction.           *)
(*                                                                         *)
(* Three builds of the library are in the source tree and are modelled:    *)
(*   variant "retries"   createSafeAction(handler, schema, allowedRoles,   *)
(*                       retries) with withRetry on the server, driven by  *)
(*                       the hook whose execute passes its AbortSignal;    *)
(*   variant "isPrivate" createSafeAction(handler, schema, allowedRoles,   *)
(*                       isPrivate) without server retries, driven by the  *)
(*                       hook whose safeAction wraps the server action in  *)
(*                       withRetry on the client.                          *)
(*   variant "actionType" createSafeAction({action, actionType}), the same  *)
(*                       build with the options grouped in two objects.    *)
(* JavaScript values are tagged records, so that undefined, 0, "" and      *)
(* objects stay distinct and truthiness is computed as JavaScript does.    *)
(***************************************************************************)
EXTENDS Integers, Sequences, FiniteSets, TLC

VARIABLES
  cfg,          \* arguments of createSafeAction / useSafeAction, fixed at construction
  aborted,      \* abortController.current.signal.aborted
  isPending,    \* useState: isPending
  data,         \* useState: data
  error,        \* useState: error
  fieldErrors,  \* useState: fieldErrors
  toastId,      \* useRef: toastId.current
  toasts,       \* react-hot-toast store: toast id -> what it shows
  runs,         \* one record per execute call: position and history
  started       \* number of execute calls made so far

vars == <<cfg, aborted, isPending, data, error, fieldErrors, toastId, toasts, runs, started>>

----
\* Bounds of the model

\* the largest retry budget a guarded action is built with
MaxRetries == 3

\* the number of execute calls made on one hook in the behaviours of SpecRuns
MaxExecutes == 2

----
\* JavaScript values

Undefined == [tag |-> "undefined"]
Str(s) == [tag |-> "string", str |-> s]
Num(n) == [tag |-> "number", num |-> n]

\* ToBoolean of the values that occur in the model
Truthy(v) ==
  CASE v.tag = "undefined" -> FALSE
    [] v.tag = "null" -> FALSE
    [] v.tag = "number" -> v.num # 0
    [] v.tag = "string" -> v.str # ""
    [] v.tag = "boolean" -> v.bool
    [] OTHER -> TRUE

----
\* The values the model draws inputs from

\* session.role: absent, the empty string, or a role name
RoleValues == {Undefined, Str(""), Str("user"), Str("admin")}

\* SessionObject = { authenticated: boolean; role?: string }
SessionValues == [authenticated : BOOLEAN, role : RoleValues]

\* allowedRoles?: string[]  (absent, empty, or listing roles)
Roles(s) == [tag |-> "array", items |-> s]
AllowedRolesValues == {Undefined, Roles({}), Roles({"admin"})}

\* An object input for the schema z.object({title: z.string().min(1),
\* content: z.string().min(1)}); extra says whether it carries a key the
\* schema does not know.
Obj(t, c, e) == [tag |-> "object", title |-> t, content |-> c, extra |-> e]

\* data?: TInput as the caller passes it: nothing, a falsy value, a truthy
\* value that is no object, and objects with valid and invalid fields
InputValues ==
  { Undefined, Num(0), Str("x"),
    Obj("Hello", "World", FALSE), Obj("Hello", "World", TRUE),
    Obj("", "World", FALSE), Obj("Hello", "", FALSE), Obj("", "", FALSE) }

\* schema?: z.Schema<TInput>: absent, or the object schema above
PostSchema == [tag |-> "schema"]
SchemaValues == {Undefined, PostSchema}

\* What a handler attempt can resolve to: void, a data envelope (truthy or
\* falsy data), an error envelope
HandlerResults ==
  { Undefined,
    [data |-> [tag |-> "object", id |-> "1"]],
    [data |-> Num(0)],
    [error |-> Str("x")] }

\* What a handler attempt can throw on its n-th invocation: an Error, or a
\* value that is no Error
HandlerError(n) == [tag |-> "Error", message |-> "handler failed", attempt |-> n]
HandlerNonError(n) == [tag |-> "string", message |-> "oops", attempt |-> n]
ThrownValues(n) == {HandlerError(n), HandlerNonError(n)}

----
\* zod: schema.safeParse(data) for PostSchema

Issue(path, message) == [path |-> path, message |-> message]

\* ZodError.issues, in the order zod reports them (schema key order)
Issues(d) ==
  IF d.tag = "undefined"
  THEN << Issue(<<>>, "Required") >>
  ELSE IF d.tag # "object"
  THEN << Issue(<<>>, "Expected object, received " \o d.tag) >>
  ELSE (IF d.title = ""
        THEN << Issue(<<"title">>, "String must contain at least 1 character(s)") >>
        ELSE << >>)
       \o
       (IF d.content = ""
        THEN << Issue(<<"content">>, "String must contain at least 1 character(s)") >>
        ELSE << >>)

\* the parsed value: z.object strips the keys the schema does not know
Parsed(d) == Obj(d.title, d.content, FALSE)

safeParse(d) ==
  IF Issues(d) = << >>
  THEN [success |-> TRUE, data |-> Parsed(d)]
  ELSE [success |-> FALSE, issues |-> Issues(d)]

RECURSIVE MessagesAt(_, _)
MessagesAt(issues, key) ==
  IF issues = << >> THEN << >>
  ELSE (IF Head(issues).path # << >> /\ Head(issues).path[1] = key
        THEN << Head(issues).message >> ELSE << >>)
       \o MessagesAt(Tail(issues), key)

\* ZodError.flatten().fieldErrors: the messages of the issues that have a
\* path, keyed by the first path element
flattenFieldErrors(issues) ==
  LET keys == { issues[i].path[1] : i \in { j \in 1..Len(issues) : issues[j].path # << >> } }
  IN  [k \in keys |-> MessagesAt(issues, k)]

\* zod-error generateErrorMessage(issues, {maxErrors: 1, delimiter:
\* {component: ": "}, message: {enabled: true, label: ""}, code: {enabled:
\* false}}): the first issue only; its path component (default label
\* "Path: ") when the path is not empty, then its message
generateErrorMessage(issues) ==
  LET i == issues[1]
  IN  IF i.path = << >> THEN i.message
      ELSE "Path: " \o i.path[1] \o ": " \o i.message

----
\* createSafeAction: the checks of one invocation

Err(m) == [tag |-> "Error", message |-> m, attempt |-> 0]
Envelope(m) == [error |-> Str(m)]

\* The outcome of a group of checks: the steps evaluated, in order, and
\* either the envelope returned or the decision to go on
Return(steps, value) == [steps |-> steps, kind |-> "return", value |-> value]
Pass(steps) == [steps |-> steps, kind |-> "pass", value |-> Undefined]
CallHandler(steps, arg) == [steps |-> steps, kind |-> "handler", value |-> arg]

\* allowedRoles && allowedRoles.length > 0
RolesGiven(allowedRoles) == Truthy(allowedRoles) /\ allowedRoles.items # {}

\* allowedRoles.includes(session.role)
Includes(allowedRoles, role) == role.tag = "string" /\ role.str \in allowedRoles.items

\* sessionChecks without the test of session.authenticated
sessionChecksNoAuthentication(session, allowedRoles) ==
  IF ~Truthy(session.role)
  THEN Return(<<"authentication", "role presence">>, Envelope("No role found in session"))
  ELSE IF RolesGiven(allowedRoles) /\ ~Includes(allowedRoles, session.role)
  THEN Return(<<"authentication", "role presence", "role membership">>,
              Envelope("Un-authorized"))
  ELSE Pass(<<"authentication", "role presence", "role membership">>)

\* sessionChecks with the membership test dropped
sessionChecksNoMembership(session, allowedRoles) ==
  IF ~session.authenticated
  THEN Return(<<"authentication">>, Envelope("Un-authenticated"))
  ELSE IF ~Truthy(session.role)
  THEN Return(<<"authentication", "role presence">>, Envelope("No role found in session"))
  ELSE Pass(<<"authentication", "role presence", "role membership">>)

\* sessionChecks with the role looked at only when allowedRoles lists roles
sessionChecksRoleWhenGiven(session, allowedRoles) ==
  IF ~session.authenticated
  THEN Return(<<"authentication">>, Envelope("Un-authenticated"))
  ELSE IF RolesGiven(allowedRoles) /\ ~Truthy(session.role)
  THEN Return(<<"authentication", "role presence">>, Envelope("No role found in session"))
  ELSE IF RolesGiven(allowedRoles) /\ ~Includes(allowedRoles, session.role)
  THEN Return(<<"authentication", "role presence", "role membership">>,
              Envelope("Un-authorized"))
  ELSE Pass(<<"authentication", "role presence", "role membership">>)

\* variant "retries": the session checks
sessionChecks(session, allowedRoles) ==
  IF ~session.authenticated
  THEN Return(<<"authentication">>, Envelope("Un-authenticated"))
  ELSE IF ~Truthy(session.role)
  THEN Return(<<"authentication", "role presence">>, Envelope("No role found in session"))
  ELSE IF RolesGiven(allowedRoles) /\ ~Includes(allowedRoles, session.role)
  THEN Return(<<"authentication", "role presence", "role membership">>,
              Envelope("Un-authorized"))
  ELSE Pass(<<"authentication", "role presence", "role membership">>)

\* variant "isPrivate": the session checks, made only when isPrivate
sessionChecksPrivate(session, allowedRoles) ==
  IF ~session.authenticated
  THEN Return(<<"authentication">>, Envelope("Un-authenticated"))
  ELSE IF RolesGiven(allowedRoles)
  THEN IF ~Truthy(session.role)
       THEN Return(<<"authentication", "role presence">>,
                   Envelope("No role found in session"))
       ELSE IF ~Includes(allowedRoles, session.role)
       THEN Return(<<"authentication", "role presence", "role membership">>,
                   Envelope("Un-authorized"))
       ELSE Pass(<<"authentication", "role presence", "role membership">>)
  ELSE Pass(<<"authentication">>)

\* the envelope of a failed validation
validationEnvelope(issues) ==
  [fieldErrors |-> flattenFieldErrors(issues), error |-> Str(generateErrorMessage(issues))]

\* inputChecks handing the raw input to the handler
inputChecksRaw(schema, d, noInput) ==
  IF ~Truthy(schema) /\ Truthy(d)
  THEN Return(<<"presence">>, Envelope("Schema is required when data is provided"))
  ELSE IF Truthy(schema) /\ ~Truthy(d)
  THEN Return(<<"presence">>, Envelope("Data is required when schema is provided"))
  ELSE IF ~Truthy(schema) /\ ~Truthy(d)
  THEN CallHandler(<<"presence">>, noInput)
  ELSE LET validationResult == safeParse(d)
       IN  IF ~validationResult.success
           THEN Return(<<"presence", "validation">>, validationEnvelope(validationResult.issues))
           ELSE CallHandler(<<"presence", "validation">>, d)

\* the schema/data presence checks and the validation; noInput is what the
\* handler receives when there is neither schema nor data
inputChecks(schema, d, noInput) ==
  IF ~Truthy(schema) /\ Truthy(d)
  THEN Return(<<"presence">>, Envelope("Schema is required when data is provided"))
  ELSE IF Truthy(schema) /\ ~Truthy(d)
  THEN Return(<<"presence">>, Envelope("Data is required when schema is provided"))
  ELSE IF ~Truthy(schema) /\ ~Truthy(d)
  THEN CallHandler(<<"presence">>, noInput)
  ELSE LET validationResult == safeParse(d)
       IN  IF ~validationResult.success
           THEN Return(<<"presence", "validation">>, validationEnvelope(validationResult.issues))
           ELSE CallHandler(<<"presence", "validation">>, validationResult.data)

----
\* withRetry

\* withRetryHead with attempt < retries - 1 for the loop condition
withRetryHeadOneLess(attempt, retries, signalAborted) ==
  IF ~(attempt < retries - 1) THEN "max"
  ELSE IF signalAborted THEN "aborted"
  ELSE "call"

\* withRetryHead with the signal tested before the loop condition
withRetryHeadAbortFirst(attempt, retries, signalAborted) ==
  IF signalAborted THEN "aborted"
  ELSE IF ~(attempt < retries) THEN "max"
  ELSE "call"

\* withRetryHead without the test of signal.aborted
withRetryHeadNoAbort(attempt, retries, signalAborted) ==
  IF ~(attempt < retries) THEN "max" ELSE "call"

\* the head of the loop: "max" when the loop is over, "aborted" when the
\* signal is set, "call" when fn is invoked
withRetryHead(attempt, retries, signalAborted) ==
  IF ~(attempt < retries) THEN "max"
  ELSE IF signalAborted THEN "aborted"
  ELSE "call"

\* withRetryCatch taking attempt === retries for the last attempt
withRetryCatchOffByOne(attempt, retries) ==
  IF attempt = retries THEN "throw" ELSE "retry"

\* the catch block: the last attempt's error is thrown, any other is dropped
\* and the loop goes on
withRetryCatch(attempt, retries) ==
  IF attempt = retries - 1 THEN "throw" ELSE "retry"

----
\* One execute call: its position and its history

NoOutcome == [kind |-> "none", value |-> Undefined]

NewRun(input, signalAborted, toast) ==
  [ pc |-> "idle",            \* idle, fetch, handler, settled, done
    input |-> input,          \* the argument of execute
    abortedAtStart |-> signalAborted,
    toast |-> toast,          \* the handle toast.loading returned to this call
    session |-> Undefined,    \* the session of the invocation of the guard under way
    lookups |-> 0,            \* session lookups made
    steps |-> << >>,          \* the checks evaluated by the last invocation of the guard
    attempt |-> 0,            \* the loop variable of withRetry
    firstHead |-> "none",     \* what the first evaluation of the loop head found
    signalAtEntry |-> FALSE,  \* signal.aborted when withRetry was entered
    fnCalls |-> 0,            \* invocations of withRetry's fn
    calls |-> 0,              \* handler invocations
    invCalls |-> 0,           \* handler invocations of the last invocation of the guard
    returned |-> NoOutcome,   \* what the last handler attempt resolved to
    arg |-> Undefined,        \* the value the guard hands to the handler
    args |-> << >>,           \* the argument list of each handler invocation
    failures |-> 0,           \* calls of fn that threw
    lastThrown |-> Undefined, \* what the last failed call of fn threw
    timers |-> 0,             \* backoff timers set by the catch block
    elapsed |-> 0,            \* backoff timers that have fired
    outcome |-> NoOutcome,    \* how the awaited promise settled
    promise |-> NoOutcome,    \* how the promise execute returned settled
    during |-> {},            \* the runs in flight when execute was called
    log |-> << >> ]           \* the callbacks invoked, in order

Resolve(r, v) == [r EXCEPT !.pc = "settled", !.outcome = [kind |-> "resolved", value |-> v]]
Reject(r, e) == [r EXCEPT !.pc = "settled", !.outcome = [kind |-> "rejected", value |-> e]]
\* the handler is called with the argument list argv
InvokeHandlerWith(r, argv) ==
  [r EXCEPT !.pc = "handler", !.calls = @ + 1, !.invCalls = @ + 1,
            !.args = Append(@, argv)]

\* handler(arg): the handler is called with one argument
InvokeHandler(r, arg) == InvokeHandlerWith(r, <<arg>>)

\* withRetryResolved with the signal tested before the return
withRetryResolvedChecksSignal(r, v) ==
  IF aborted THEN Reject(r, Err("Request aborted")) ELSE Resolve(r, v)

\* withRetryResolved without its return
withRetryResolvedDropped(r, v) == Resolve(r, Undefined)

\* fn resolved with v inside withRetry: return await fn()
withRetryResolved(r, v) == Resolve(r, v)

\* the handler attempt of r resolved with v: the guarded action returns what
\* withRetry (variant "retries") or the handler (variant "isPrivate") returned
handlerResolved(r, v) ==
  withRetryResolved([r EXCEPT !.returned = [kind |-> "resolved", value |-> v]], v)

\* variant "actionType": the test of action.withInputs (an action with
\* inputs is one that has a schema) and the validation
actionTypeChecks(schema, d) ==
  IF ~Truthy(schema)
  THEN CallHandler(<<"presence">>, Undefined)
  ELSE LET validationResult == safeParse(d)
       IN  IF ~validationResult.success
           THEN Return(<<"presence", "validation">>, validationEnvelope(validationResult.issues))
           ELSE CallHandler(<<"presence", "validation">>, validationResult.data)

\* variants "isPrivate" and "actionType": the server action after its
\* session checks; an action without inputs of variant "actionType" calls
\* action.handler() with no argument
privateActionBody(r) ==
  LET c == IF cfg.variant = "actionType"
           THEN actionTypeChecks(cfg.schema, r.input)
           ELSE inputChecks(cfg.schema, r.input, r.input)
      r1 == [r EXCEPT !.steps = @ \o c.steps]
  IN  IF c.kind = "return" THEN withRetryResolved(r1, c.value)
      ELSE IF cfg.variant = "actionType" /\ ~Truthy(cfg.schema)
      THEN InvokeHandlerWith(r1, << >>)
      ELSE InvokeHandler(r1, c.value)

\* privateAction looking up the session whatever isPrivate says
privateActionAlwaysChecks(r) ==
  [r EXCEPT !.pc = "fetch", !.session = Undefined, !.steps = << >>, !.invCalls = 0]

\* variants "isPrivate" and "actionType": a call of the server action
privateAction(r) ==
  IF cfg.isPrivate
  THEN [r EXCEPT !.pc = "fetch", !.session = Undefined, !.steps = << >>, !.invCalls = 0]
  ELSE privateActionBody([r EXCEPT !.steps = << >>, !.invCalls = 0])

\* withRetry at the head of its loop, r.attempt being the loop variable.  fn
\* is the handler call in variant "retries" and the server action in variant
\* "isPrivate".
\* withRetryLoop handed the signal of a controller made anew by each execute
\* call: a cancel() that preceded the call does not show in it
withRetryLoopFreshSignal(r, signalAborted) ==
  LET fresh == signalAborted /\ ~r.abortedAtStart
      head == withRetryHead(r.attempt, cfg.retries, fresh)
      r1 == IF r.firstHead = "none"
            THEN [r EXCEPT !.firstHead = head, !.signalAtEntry = fresh]
            ELSE r
  IN  CASE head = "max" -> Reject(r1, Err("Max retries reached"))
        [] head = "aborted" -> Reject(r1, Err("Request aborted"))
        [] OTHER -> IF cfg.variant = "retries"
                    THEN InvokeHandler([r1 EXCEPT !.fnCalls = @ + 1], r1.arg)
                    ELSE privateAction([r1 EXCEPT !.fnCalls = @ + 1])

withRetryLoop(r, signalAborted) ==
  LET head == withRetryHead(r.attempt, cfg.retries, signalAborted)
      r1 == IF r.firstHead = "none"
            THEN [r EXCEPT !.firstHead = head, !.signalAtEntry = signalAborted]
            ELSE r
  IN  CASE head = "max" -> Reject(r1, Err("Max retries reached"))
        [] head = "aborted" -> Reject(r1, Err("Request aborted"))
        [] OTHER -> IF cfg.variant = "retries"
                    THEN InvokeHandler([r1 EXCEPT !.fnCalls = @ + 1], r1.arg)
                    ELSE privateAction([r1 EXCEPT !.fnCalls = @ + 1])

\* withRetryRejected with the signal tested in the catch block
withRetryRejectedChecksSignal(r, e, signalAborted) ==
  LET r1 == [r EXCEPT !.failures = @ + 1, !.lastThrown = e]
  IN  IF signalAborted
      THEN Reject(r1, Err("Request aborted"))
      ELSE IF withRetryCatch(r.attempt, cfg.retries) = "throw"
      THEN Reject(r1, e)
      ELSE withRetryLoop([r1 EXCEPT !.attempt = @ + 1, !.timers = @ + 1], signalAborted)

\* withRetryRejected without attempt++: the loop goes on at the same attempt
withRetryRejectedNoIncrement(r, e, signalAborted) ==
  LET r1 == [r EXCEPT !.failures = @ + 1, !.lastThrown = e]
  IN  IF withRetryCatch(r.attempt, cfg.retries) = "throw"
      THEN Reject(r1, e)
      ELSE withRetryLoop([r1 EXCEPT !.timers = @ + 1], signalAborted)

\* fn rejected with e inside withRetry.  The catch block rethrows, or sets a
\* 1-second timer whose promise it does not await and goes on to attempt++
\* and the head of the loop.
withRetryRejected(r, e, signalAborted) ==
  LET r1 == [r EXCEPT !.failures = @ + 1, !.lastThrown = e]
  IN  IF withRetryCatch(r.attempt, cfg.retries) = "throw"
      THEN Reject(r1, e)
      ELSE withRetryLoop([r1 EXCEPT !.attempt = @ + 1, !.timers = @ + 1], signalAborted)

\* guardedAction with the input checks made before the session checks
guardedActionInputFirst(r, signalAborted) ==
  LET s == sessionChecks(r.session, cfg.allowedRoles)
      c == inputChecks(cfg.schema, r.input, Undefined)
  IN  IF c.kind = "return"
      THEN Resolve([r EXCEPT !.steps = c.steps], c.value)
      ELSE IF s.kind = "return"
      THEN Resolve([r EXCEPT !.steps = c.steps \o s.steps], s.value)
      ELSE withRetryLoop([r EXCEPT !.steps = c.steps \o s.steps, !.arg = c.value],
                         signalAborted)

\* guardedAction with its failed checks thrown instead of returned
guardedActionThrowing(r, signalAborted) ==
  LET s == sessionChecks(r.session, cfg.allowedRoles)
      c == inputChecks(cfg.schema, r.input, Undefined)
  IN  IF s.kind = "return"
      THEN Reject([r EXCEPT !.steps = s.steps], Err(s.value.error.str))
      ELSE IF c.kind = "return"
      THEN Reject([r EXCEPT !.steps = s.steps \o c.steps], Err(c.value.error.str))
      ELSE withRetryLoop([r EXCEPT !.steps = s.steps \o c.steps, !.arg = c.value],
                         signalAborted)

\* variant "retries": the guarded action once the session lookup has returned
guardedAction(r, signalAborted) ==
  LET s == sessionChecks(r.session, cfg.allowedRoles)
      c == inputChecks(cfg.schema, r.input, Undefined)
  IN  IF s.kind = "return"
      THEN Resolve([r EXCEPT !.steps = s.steps], s.value)
      ELSE IF c.kind = "return"
      THEN Resolve([r EXCEPT !.steps = s.steps \o c.steps], c.value)
      ELSE withRetryLoop([r EXCEPT !.steps = s.steps \o c.steps, !.arg = c.value],
                         signalAborted)

----
\* useSafeAction

\* result?.key
Get(result, key) == IF key \in DOMAIN result THEN result[key] ELSE Undefined

Toast(type, message) == [type |-> type, message |-> message]
Callback(cb, arg) == [cb |-> cb, arg |-> arg]

LoadingMessage == "Processing request..."
SuccessMessage == "Request successful"

\* errorMessage without the instanceof test
errorMessageOfAny(e) == e.message

\* error instanceof Error ? error.message : "An unknown error occurred"
errorMessage(e) == IF e.tag = "Error" THEN e.message ELSE "An unknown error occurred"

\* settled with a result that has neither error nor data reported as an error
settledVoidAsError(st, outcome, id) ==
  LET result == outcome.value
      afterTry ==
        IF Truthy(Get(result, "error"))
        THEN [st EXCEPT !.fieldErrors = Get(result, "fieldErrors"),
                        !.error = Get(result, "error"),
                        !.toasts[id] = Toast("error", Get(result, "error").str),
                        !.log = Append(@, Callback("onError", Get(result, "error")))]
        ELSE IF Truthy(Get(result, "data"))
        THEN [st EXCEPT !.fieldErrors = Get(result, "fieldErrors"),
                        !.data = Get(result, "data"),
                        !.log = Append(@, Callback("onSuccess", Get(result, "data"))),
                        !.toasts[id] = Toast("success", SuccessMessage)]
        ELSE [st EXCEPT !.fieldErrors = Get(result, "fieldErrors"),
                        !.error = Str("An unknown error occurred"),
                        !.log = Append(@, Callback("onError", Str("An unknown error occurred"))),
                        !.toasts[id] = Toast("error", "An unknown error occurred")]
      afterCatch ==
        [st EXCEPT !.error = Str(errorMessage(outcome.value)),
                   !.toasts[id] = Toast("error", errorMessage(outcome.value)),
                   !.log = Append(@, Callback("onError", Str(errorMessage(outcome.value))))]
      body == IF outcome.kind = "resolved" THEN afterTry ELSE afterCatch
  IN  [body EXCEPT !.isPending = FALSE,
                   !.promise = [kind |-> "resolved", value |-> Undefined],
                   !.log = Append(@, Callback("onComplete", Undefined))]

\* settled with the error branch of the try block not calling setError
settledErrorNotStored(st, outcome, id) ==
  LET result == outcome.value
      afterTry ==
        IF Truthy(Get(result, "error"))
        THEN [st EXCEPT !.fieldErrors = Get(result, "fieldErrors"),
                        !.toasts[id] = Toast("error", Get(result, "error").str),
                        !.log = Append(@, Callback("onError", Get(result, "error")))]
        ELSE IF Truthy(Get(result, "data"))
        THEN [st EXCEPT !.fieldErrors = Get(result, "fieldErrors"),
                        !.data = Get(result, "data"),
                        !.log = Append(@, Callback("onSuccess", Get(result, "data"))),
                        !.toasts[id] = Toast("success", SuccessMessage)]
        ELSE [st EXCEPT !.fieldErrors = Get(result, "fieldErrors"),
                        !.log = Append(@, Callback("onSuccess", Undefined)),
                        !.toasts[id] = Toast("success", SuccessMessage)]
      afterCatch ==
        [st EXCEPT !.error = Str(errorMessage(outcome.value)),
                   !.toasts[id] = Toast("error", errorMessage(outcome.value)),
                   !.log = Append(@, Callback("onError", Str(errorMessage(outcome.value))))]
      body == IF outcome.kind = "resolved" THEN afterTry ELSE afterCatch
  IN  [body EXCEPT !.isPending = FALSE,
                   !.promise = [kind |-> "resolved", value |-> Undefined],
                   !.log = Append(@, Callback("onComplete", Undefined))]

\* settled with the finally block run on the try path only
settledNoFinally(st, outcome, id) ==
  IF outcome.kind = "resolved"
  THEN [st EXCEPT !.fieldErrors = Get(outcome.value, "fieldErrors"),
                  !.isPending = FALSE,
                  !.promise = [kind |-> "resolved", value |-> Undefined],
                  !.toasts[id] = Toast("success", SuccessMessage),
                  !.log = @ \o <<Callback("onSuccess", Get(outcome.value, "data")),
                                 Callback("onComplete", Undefined)>>]
  ELSE [st EXCEPT !.error = Str(errorMessage(outcome.value)),
                  !.promise = [kind |-> "resolved", value |-> Undefined],
                  !.toasts[id] = Toast("error", errorMessage(outcome.value)),
                  !.log = Append(@, Callback("onError", Str(errorMessage(outcome.value))))]

\* the statements of the try block of execute that follow the await
tryBlock(st, result, id) ==
  IF Truthy(Get(result, "error"))
  THEN [st EXCEPT !.fieldErrors = Get(result, "fieldErrors"),
                  !.error = Get(result, "error"),
                  !.toasts[id] = Toast("error", Get(result, "error").str),
                  !.log = Append(@, Callback("onError", Get(result, "error")))]
  ELSE IF Truthy(Get(result, "data"))
  THEN [st EXCEPT !.fieldErrors = Get(result, "fieldErrors"),
                  !.data = Get(result, "data"),
                  !.log = Append(@, Callback("onSuccess", Get(result, "data"))),
                  !.toasts[id] = Toast("success", SuccessMessage)]
  ELSE [st EXCEPT !.fieldErrors = Get(result, "fieldErrors"),
                  !.log = Append(@, Callback("onSuccess", Undefined)),
                  !.toasts[id] = Toast("success", SuccessMessage)]

\* the finally block of execute
finallyBlock(st) ==
  [st EXCEPT !.isPending = FALSE,
             !.promise = [kind |-> "resolved", value |-> Undefined],
             !.log = Append(@, Callback("onComplete", Undefined))]

\* settled with a catch block that also resets data and fieldErrors
settledThrownResets(st, outcome, id) ==
  IF outcome.kind = "resolved"
  THEN finallyBlock(tryBlock(st, outcome.value, id))
  ELSE [st EXCEPT !.error = Str(errorMessage(outcome.value)),
                  !.data = Undefined,
                  !.fieldErrors = Undefined,
                  !.isPending = FALSE,
                  !.promise = [kind |-> "resolved", value |-> Undefined],
                  !.toasts[id] = Toast("error", errorMessage(outcome.value)),
                  !.log = @ \o <<Callback("onError", Str(errorMessage(outcome.value))),
                                 Callback("onComplete", Undefined)>>]

\* settled without the catch block: a rejection of the awaited promise runs
\* the finally block and rejects the promise of execute
settledNoCatch(st, outcome, id) ==
  IF outcome.kind = "resolved"
  THEN finallyBlock(tryBlock(st, outcome.value, id))
  ELSE [st EXCEPT !.isPending = FALSE,
                  !.promise = [kind |-> "rejected", value |-> outcome.value],
                  !.log = Append(@, Callback("onComplete", Undefined))]

\* The hook's state after the awaited promise of a run settled with outcome:
\* the try, catch and finally blocks of execute.  st is the record
\* [fieldErrors, error, data, isPending, toasts, log, promise]; promise is
\* how the promise of this execute call settles.
settled(st, outcome, id) ==
  LET result == outcome.value
      afterTry == tryBlock(st, result, id)
      afterCatch ==
        [st EXCEPT !.error = Str(errorMessage(outcome.value)),
                   !.toasts[id] = Toast("error", errorMessage(outcome.value)),
                   !.log = Append(@, Callback("onError", Str(errorMessage(outcome.value))))]
      body == IF outcome.kind = "resolved" THEN afterTry ELSE afterCatch
  IN  finallyBlock(body)

----
\* Construction

\* the retry budgets a guard or a hook is built with: the positive ones, 0,
\* and a negative one
RetriesValues == -1..MaxRetries

\* A behaviour of Spec is the life of one hook on which execute is called
\* once: Calls names that call.
Calls == {1}

ConfigValues ==
  [ variant : {"retries"}, schema : SchemaValues, allowedRoles : AllowedRolesValues,
    retries : RetriesValues, isPrivate : {TRUE}, executes : {Cardinality(Calls)} ]
  \cup
  [ variant : {"isPrivate", "actionType"}, schema : SchemaValues,
    allowedRoles : AllowedRolesValues,
    retries : RetriesValues, isPrivate : BOOLEAN, executes : {Cardinality(Calls)} ]

\* The behaviours of SpecRuns are the life of one hook on which execute is
\* called MaxExecutes times, the calls overlapping or not, against the guard
\* with retries built without schema and without allowedRoles.
RunsConfigValues ==
  [ variant : {"retries"}, schema : {Undefined}, allowedRoles : {Undefined},
    retries : {2}, isPrivate : {TRUE}, executes : {MaxExecutes} ]

\* What the callers, the session endpoint and the handler supply.  A
\* behaviour of one execute call draws from all the values above; a
\* behaviour of several calls draws one value of each kind: no input, a
\* session that passes the checks and one that does not, a handler that
\* returns one of two data objects, the data 0, an error envelope with
\* fieldErrors or nothing, or throws an Error.
OneCall == cfg.executes = 1
Inputs == IF OneCall THEN InputValues ELSE {Undefined}
Sessions ==
  IF OneCall THEN SessionValues
  ELSE { [authenticated |-> TRUE, role |-> Str("user")],
         [authenticated |-> FALSE, role |-> Undefined] }
Results ==
  IF OneCall THEN HandlerResults
  ELSE { Undefined, [data |-> [tag |-> "object", id |-> "1"]],
         [data |-> [tag |-> "object", id |-> "2"]], [data |-> Num(0)],
         [error |-> Str("x"), fieldErrors |-> [title |-> <<"taken">>]] }
Thrown(n) == IF OneCall THEN ThrownValues(n) ELSE {HandlerError(n)}

Init ==
  /\ cfg \in ConfigValues
  /\ aborted = FALSE
  /\ isPending = FALSE
  /\ data = Undefined
  /\ error = Undefined
  /\ fieldErrors = Undefined
  /\ toastId = 0
  /\ toasts = << >>
  /\ runs = << >>
  /\ started = 0

InitRuns ==
  /\ cfg \in RunsConfigValues
  /\ aborted = FALSE
  /\ isPending = FALSE
  /\ data = Undefined
  /\ error = Undefined
  /\ fieldErrors = Undefined
  /\ toastId = 0
  /\ toasts = << >>
  /\ runs = << >>
  /\ started = 0

----
\* Actions

\* execute(input) up to its first await
Execute(input) ==
  /\ started < cfg.executes
  /\ LET id == Len(toasts) + 1
         r0 == [NewRun(input, aborted, id) EXCEPT
                  !.log = <<Callback("onStart", Undefined)>>,
                  !.during = {j \in DOMAIN runs : runs[j].pc # "done"}]
     IN  /\ toasts' = Append(toasts, Toast("loading", LoadingMessage))
         /\ toastId' = id
         /\ runs' = Append(runs, IF cfg.variant = "retries"
                                 THEN [r0 EXCEPT !.pc = "fetch"]
                                 ELSE withRetryLoop(r0, aborted))
  /\ isPending' = TRUE
  /\ started' = started + 1
  /\ UNCHANGED <<cfg, aborted, data, error, fieldErrors>>

\* the session lookup of run i returns session
SessionLookup(i, session) ==
  /\ runs[i].pc = "fetch"
  /\ LET r == [runs[i] EXCEPT !.session = session, !.lookups = @ + 1]
         s == sessionChecksPrivate(session, cfg.allowedRoles)
     IN  runs' = [runs EXCEPT ![i] =
           IF cfg.variant = "retries" THEN guardedAction(r, aborted)
           ELSE IF s.kind = "return"
           THEN withRetryResolved([r EXCEPT !.steps = s.steps], s.value)
           ELSE privateActionBody([r EXCEPT !.steps = s.steps])]
  /\ UNCHANGED <<cfg, aborted, isPending, data, error, fieldErrors, toastId, toasts, started>>

\* the session lookup of run i fails (fetch or response.json() rejects)
SessionLookupFails(i) ==
  /\ runs[i].pc = "fetch"
  /\ LET r == [runs[i] EXCEPT !.lookups = @ + 1]
         e == Err("fetch failed")
     IN  runs' = [runs EXCEPT ![i] =
           IF cfg.variant = "retries" THEN Reject(r, e)
           ELSE withRetryRejected(r, e, aborted)]
  /\ UNCHANGED <<cfg, aborted, isPending, data, error, fieldErrors, toastId, toasts, started>>

\* HandlerResolves with an error envelope treated as a failed attempt: the
\* loop of withRetry goes on while the budget lasts
HandlerResolvesRetriesEnvelope(i, result) ==
  /\ runs[i].pc = "handler"
  /\ LET r == runs[i]
     IN  runs' = [runs EXCEPT ![i] =
                    IF Truthy(Get(result, "error")) /\ r.attempt < cfg.retries - 1
                    THEN withRetryLoop([r EXCEPT !.attempt = @ + 1], aborted)
                    ELSE handlerResolved(r, result)]
  /\ UNCHANGED <<cfg, aborted, isPending, data, error, fieldErrors, toastId, toasts, started>>

\* the handler attempt in flight in run i resolves with result
HandlerResolves(i, result) ==
  /\ runs[i].pc = "handler"
  /\ runs' = [runs EXCEPT ![i] = handlerResolved(@, result)]
  /\ UNCHANGED <<cfg, aborted, isPending, data, error, fieldErrors, toastId, toasts, started>>

\* the handler attempt in flight in run i throws e
HandlerThrows(i, e) ==
  /\ runs[i].pc = "handler"
  /\ runs' = [runs EXCEPT ![i] = withRetryRejected(@, e, aborted)]
  /\ UNCHANGED <<cfg, aborted, isPending, data, error, fieldErrors, toastId, toasts, started>>

\* execute resumes after its await in run i
Settle(i) ==
  /\ runs[i].pc = "settled"
  /\ LET st == [fieldErrors |-> fieldErrors, error |-> error, data |-> data,
                isPending |-> isPending, toasts |-> toasts, log |-> runs[i].log,
                promise |-> runs[i].promise]
         new == settled(st, runs[i].outcome, toastId)
     IN  /\ fieldErrors' = new.fieldErrors
         /\ error' = new.error
         /\ data' = new.data
         /\ isPending' = new.isPending
         /\ toasts' = new.toasts
         /\ runs' = [runs EXCEPT ![i].pc = "done", ![i].log = new.log,
                                   ![i].promise = new.promise]
  /\ UNCHANGED <<cfg, aborted, toastId, started>>

\* a backoff timer of run i fires: setTimeout(resolve, 1000)
BackoffElapses(i) ==
  /\ runs[i].elapsed < runs[i].timers
  /\ runs' = [runs EXCEPT ![i].elapsed = @ + 1]
  /\ UNCHANGED <<cfg, aborted, isPending, data, error, fieldErrors, toastId, toasts, started>>

\* cancel() that also leaves Pending
CancelClearsPending ==
  /\ ~aborted
  /\ aborted' = TRUE
  /\ isPending' = FALSE
  /\ UNCHANGED <<cfg, data, error, fieldErrors, toastId, toasts, runs, started>>

\* cancel()
Cancel ==
  /\ ~aborted
  /\ aborted' = TRUE
  /\ UNCHANGED <<cfg, isPending, data, error, fieldErrors, toastId, toasts, runs, started>>

Next ==
  \/ \E input \in Inputs : Execute(input)
  \/ \E i \in DOMAIN runs : \E session \in Sessions : SessionLookup(i, session)
  \/ \E i \in DOMAIN runs : SessionLookupFails(i)
  \/ \E i \in DOMAIN runs : \E result \in Results : HandlerResolves(i, result)
  \/ \E i \in DOMAIN runs : \E e \in Thrown(runs[i].calls) : HandlerThrows(i, e)
  \/ \E i \in DOMAIN runs : Settle(i)
  \/ \E i \in DOMAIN runs : BackoffElapses(i)
  \/ Cancel

Spec == Init /\ [][Next]_vars

SpecRuns == InitRuns /\ [][Next]_vars

----
\* Properties

Resolved(v) == [kind |-> "resolved", value |-> v]
Rejected(e) == [kind |-> "rejected", value |-> e]

\* the session lookup of the run's invocation of the guard returned
HasSession(r) == r.session # Undefined

\* C1: an invocation of the guarded action whose session lookup returned
\* authenticated = false resolves to exactly { error: "Un-authenticated" }
\* and does not invoke the handler, whatever the role, the schema, the
\* input, allowedRoles and the retry budget.
C1_Unauthenticated ==
  \A i \in DOMAIN runs :
    (HasSession(runs[i]) /\ ~runs[i].session.authenticated)
      => /\ runs[i].outcome = Resolved(Envelope("Un-authenticated"))
         /\ runs[i].invCalls = 0

\* an unauthenticated session that has an allowed role, with a valid input
\* for the schema and the full retry budget, has been answered
C1_Witness ==
  \E i \in DOMAIN runs :
    /\ runs[i].pc = "done"
    /\ HasSession(runs[i])
    /\ ~runs[i].session.authenticated
    /\ runs[i].session.role = Str("admin")
    /\ cfg.allowedRoles = Roles({"admin"})
    /\ cfg.schema = PostSchema
    /\ runs[i].input = Obj("Hello", "World", FALSE)
    /\ cfg.retries = MaxRetries


\* C2, as stated: with a non-empty allowedRoles, an authenticated session
\* whose role is not a member of allowedRoles resolves to exactly
\* { error: "Un-authorized" } and the handler is not invoked.
C2_NotMember ==
  \A i \in DOMAIN runs :
    ( /\ HasSession(runs[i])
      /\ RolesGiven(cfg.allowedRoles)
      /\ runs[i].session.authenticated
      /\ ~Includes(cfg.allowedRoles, runs[i].session.role) )
      => /\ runs[i].outcome = Resolved(Envelope("Un-authorized"))
         /\ runs[i].invCalls = 0

\* C2, amended: with a non-empty allowedRoles, an authenticated session
\* that carries a role (a non-empty string) which is not a member of
\* allowedRoles resolves to exactly { error: "Un-authorized" } and the
\* handler is not invoked, whatever the schema and the input.
C2_NotMemberWithRole ==
  \A i \in DOMAIN runs :
    ( /\ HasSession(runs[i])
      /\ RolesGiven(cfg.allowedRoles)
      /\ runs[i].session.authenticated
      /\ Truthy(runs[i].session.role)
      /\ ~Includes(cfg.allowedRoles, runs[i].session.role) )
      => /\ runs[i].outcome = Resolved(Envelope("Un-authorized"))
         /\ runs[i].invCalls = 0

\* createSafeAction(h, schema, ["admin"], 3) called with a valid input by
\* a session of role "user" has been answered
C2_Witness ==
  \E i \in DOMAIN runs :
    /\ runs[i].pc = "done"
    /\ cfg.variant = "retries"
    /\ cfg.allowedRoles = Roles({"admin"})
    /\ cfg.schema = PostSchema
    /\ cfg.retries = MaxRetries
    /\ runs[i].session = [authenticated |-> TRUE, role |-> Str("user")]
    /\ runs[i].input = Obj("Hello", "World", FALSE)
    /\ runs[i].outcome = Resolved(Envelope("Un-authorized"))

\* the invocation got past its session checks (or has none to make)
Authorized(r) == \E j \in DOMAIN r.steps : r.steps[j] = "presence"

SchemaPresent == cfg.schema # Undefined
InputPresent(r) == r.input # Undefined

\* C3: an authorized invocation with exactly one of schema and input
\* present resolves to the matching presence-mismatch envelope and does not
\* invoke the handler (stated for the guard with retries and a budget of at
\* least 1, behind its session checks).
C3_PresenceMismatch ==
  \A i \in DOMAIN runs :
    ( /\ cfg.variant = "retries"
      /\ cfg.retries >= 1
      /\ Authorized(runs[i])
      /\ SchemaPresent # InputPresent(runs[i]) )
      => /\ runs[i].outcome =
              Resolved(IF SchemaPresent
                       THEN Envelope("Data is required when schema is provided")
                       ELSE Envelope("Schema is required when data is provided"))
         /\ runs[i].invCalls = 0

Settled(r) == r.pc \in {"settled", "done"}

\* C4: withRetry with a budget of at least 1 and no cancellation, fn failing
\* on its first k invocations: when k is below the budget the call has
\* succeeded after exactly k+1 invocations, otherwise it has rejected after
\* exactly budget invocations with the error of the last one.
C4_RetryCount ==
  \A i \in DOMAIN runs :
    LET r == runs[i]
        k == r.failures
    IN  (r.firstHead # "none" /\ cfg.retries >= 1 /\ ~aborted)
          => /\ r.fnCalls <= k + 1
             /\ r.fnCalls <= cfg.retries
             /\ Settled(r) =>
                  IF k < cfg.retries
                  THEN r.outcome.kind = "resolved" /\ r.fnCalls = k + 1
                  ELSE /\ r.outcome = Rejected(r.lastThrown)
                       /\ r.lastThrown.attempt \in {0, r.calls}
                       /\ r.fnCalls = cfg.retries
                       /\ k = cfg.retries

\* the handler threw twice and then resolved under a budget of 3: success
\* after 3 invocations
C4_Witness ==
  \E i \in DOMAIN runs :
    /\ runs[i].pc = "done"
    /\ ~aborted
    /\ cfg.variant = "retries"
    /\ cfg.retries = 3
    /\ runs[i].failures = 2
    /\ runs[i].calls = 3
    /\ runs[i].outcome = Resolved([data |-> [tag |-> "object", id |-> "1"]])

\* cancel() came before the first handler attempt of the run could start
CancelledBeforeFirstAttempt(r) == r.abortedAtStart \/ r.firstHead = "aborted"

AbortedError == Err("Request aborted")

\* abortController.current.signal, the object execute passes as
\* options.signal
Signal == [tag |-> "AbortSignal"]

\* C5, as stated: when cancel() is invoked before the first handler attempt
\* of a guarded call starts, the call rejects with the Aborted error and the
\* handler is invoked zero times (stated for the guard with retries and a
\* budget of at least 1, the session lookup having returned).
C5_CancelRejects ==
  \A i \in DOMAIN runs :
    ( /\ cfg.variant = "retries"
      /\ cfg.retries >= 1
      /\ HasSession(runs[i])
      /\ Settled(runs[i])
      /\ CancelledBeforeFirstAttempt(runs[i]) )
      => /\ runs[i].outcome = Rejected(AbortedError)
         /\ runs[i].calls = 0

\* C5, amended: when cancel() is invoked before the first handler attempt
\* of a guarded call starts, the handler is invoked zero times, and the call
\* rejects with the Aborted error if it reaches the retry loop with a budget
\* of at least 1 (it passed the session, presence and validation checks).
C5_CancelBeforeFirstAttempt ==
  \A i \in DOMAIN runs :
    CancelledBeforeFirstAttempt(runs[i])
      => /\ runs[i].calls = 0
         /\ (runs[i].firstHead = "aborted" /\ cfg.retries >= 1)
              => runs[i].outcome = Rejected(AbortedError)

\* cancel() preceded execute, the session and the input passed every check,
\* and the run has ended with error = "Request aborted"
C5_Witness ==
  \E i \in DOMAIN runs :
    /\ runs[i].pc = "done"
    /\ cfg.variant = "retries"
    /\ runs[i].abortedAtStart
    /\ runs[i].firstHead = "aborted"
    /\ Authorized(runs[i])
    /\ runs[i].calls = 0
    /\ runs[i].outcome = Rejected(AbortedError)
    /\ error = Str("Request aborted")


\* The first of the guard's steps that fails for a session and an input,
\* with the envelope that belongs to it: authentication, role presence,
\* role membership, schema/input presence, schema validation
FirstFailure(session, input) ==
  IF ~session.authenticated
  THEN [step |-> "authentication", value |-> Envelope("Un-authenticated")]
  ELSE IF ~Truthy(session.role)
  THEN [step |-> "role presence", value |-> Envelope("No role found in session")]
  ELSE IF RolesGiven(cfg.allowedRoles) /\ ~Includes(cfg.allowedRoles, session.role)
  THEN [step |-> "role membership", value |-> Envelope("Un-authorized")]
  ELSE IF SchemaPresent /\ input = Undefined
  THEN [step |-> "presence", value |-> Envelope("Data is required when schema is provided")]
  ELSE IF ~SchemaPresent /\ input # Undefined
  THEN [step |-> "presence", value |-> Envelope("Schema is required when data is provided")]
  ELSE IF SchemaPresent /\ Issues(input) # << >>
  THEN [step |-> "validation", value |-> validationEnvelope(Issues(input))]
  ELSE [step |-> "none", value |-> Undefined]

\* C6: within one invocation the checks run in the order authentication,
\* role presence, role membership, schema/input presence, schema
\* validation, handler, and the first failing check decides: the result is
\* the envelope of the earliest failing step, that step is the last one
\* evaluated and the handler is not invoked (stated for the guard with
\* retries and a budget of at least 1).
C6_FirstFailureDecides ==
  \A i \in DOMAIN runs :
    ( /\ cfg.variant = "retries"
      /\ cfg.retries >= 1
      /\ HasSession(runs[i])
      /\ FirstFailure(runs[i].session, runs[i].input).step # "none" )
      => /\ runs[i].outcome = Resolved(FirstFailure(runs[i].session, runs[i].input).value)
         /\ runs[i].steps[Len(runs[i].steps)] = FirstFailure(runs[i].session, runs[i].input).step
         /\ runs[i].invCalls = 0

Count(log, cb) == Cardinality({j \in DOMAIN log : log[j].cb = cb})

\* the session lookup and the handler attempt of run i settle, and the
\* event loop resumes execute
Progress(i) ==
  /\ i \in DOMAIN runs
  /\ \/ \E session \in Sessions : SessionLookup(i, session)
     \/ SessionLookupFails(i)
     \/ \E result \in Results : HandlerResolves(i, result)
     \/ \E e \in Thrown(runs[i].calls) : HandlerThrows(i, e)
     \/ Settle(i)

FairSpec == Spec /\ \A i \in Calls : WF_vars(Progress(i))

\* C7: every execute call that entered Pending reaches a terminal outcome,
\* and the terminal transition, whichever path it takes, sets isPending to
\* false and invokes onComplete exactly once for the run.
C7_TerminalTransition ==
  /\ [][\A i \in DOMAIN runs :
          (runs[i].pc = "settled" /\ runs'[i].pc = "done")
            => /\ ~isPending'
               /\ Count(runs[i].log, "onComplete") = 0
               /\ Count(runs'[i].log, "onComplete") = 1]_vars
  /\ [](\A i \in DOMAIN runs : runs[i].pc # "done" => Count(runs[i].log, "onComplete") = 0)
  /\ \A i \in Calls :
       (started >= i) ~> (i \in DOMAIN runs /\ runs[i].pc = "done")

\* a run whose promise rejected has ended: Failed (thrown)
C7_Witness ==
  \E i \in DOMAIN runs :
    /\ runs[i].pc = "done"
    /\ runs[i].outcome.kind = "rejected"
    /\ ~isPending
    /\ Count(runs[i].log, "onComplete") = 1

\* C8: on a new hook, a single execute against a guarded action that
\* resolves to { data: X } ends with isPending = false, data = X, error =
\* undefined, onSuccess invoked exactly once, with X, onError never, and
\* exactly one success notification (stated for the hook whose execute
\* passes its signal to the guard with retries).
C8_SingleSuccess ==
  (/\ cfg.variant = "retries"
   /\ started = 1
   /\ runs[1].pc = "done"
   /\ runs[1].outcome.kind = "resolved"
   /\ DOMAIN runs[1].outcome.value = {"data"})
    => /\ ~isPending
       /\ data = runs[1].outcome.value.data
       /\ error = Undefined
       /\ Count(runs[1].log, "onSuccess") = 1
       /\ \A j \in DOMAIN runs[1].log :
            runs[1].log[j].cb = "onSuccess" => runs[1].log[j].arg = runs[1].outcome.value.data
       /\ Count(runs[1].log, "onError") = 0
       /\ Cardinality({t \in DOMAIN toasts : toasts[t].type = "success"}) = 1

\* C9: when the checks passed and a handler attempt resolves, the guarded
\* action resolves to exactly the value the handler returned; a handler
\* that resolves on its first attempt has been invoked exactly once.
C9_HandlerResultUnchanged ==
  \A i \in DOMAIN runs :
    runs[i].returned.kind = "resolved"
      => /\ Settled(runs[i])
         /\ runs[i].outcome = Resolved(runs[i].returned.value)
         /\ runs[i].failures = 0 => runs[i].calls = 1

\* the handler resolved on its first attempt with { data: {id: "1"} } and
\* the run has ended
C9_Witness ==
  \E i \in DOMAIN runs :
    /\ runs[i].pc = "done"
    /\ cfg.variant = "retries"
    /\ runs[i].calls = 1
    /\ runs[i].returned = Resolved([data |-> [tag |-> "object", id |-> "1"]])
    /\ runs[i].outcome = Resolved([data |-> [tag |-> "object", id |-> "1"]])

\* the fields of an input that the schema rejects
InvalidFields(input) ==
  IF input.tag # "object" THEN {}
  ELSE {f \in {"title", "content"} : input[f] = ""}

\* the schema rejects the input
Rejects(input) == input.tag # "object" \/ InvalidFields(input) # {}

\* C10: an authorized invocation with a schema and an input the schema
\* rejects resolves to an envelope with both fieldErrors and error, the keys
\* of fieldErrors being exactly the invalid fields and error the non-empty
\* message of the first issue only (its path and message); the handler is
\* not invoked (stated for the guard with retries, behind its session
\* checks).
C10_ValidationEnvelope ==
  \A i \in DOMAIN runs :
    ( /\ cfg.variant = "retries"
      /\ Authorized(runs[i])
      /\ SchemaPresent
      /\ InputPresent(runs[i])
      /\ Rejects(runs[i].input) )
      => /\ runs[i].outcome.kind = "resolved"
         /\ DOMAIN runs[i].outcome.value = {"fieldErrors", "error"}
         /\ DOMAIN runs[i].outcome.value.fieldErrors = InvalidFields(runs[i].input)
         /\ runs[i].outcome.value.error = Str(generateErrorMessage(<<Issues(runs[i].input)[1]>>))
         /\ runs[i].outcome.value.error.str # ""
         /\ runs[i].invCalls = 0

\* the invocation ended at one of the guard's checks: the session lookup
\* returned and withRetry was not entered
EndedAtCheck(r) == Settled(r) /\ HasSession(r) /\ r.firstHead = "none"

\* C11, as stated: every authentication, role, presence-mismatch and
\* validation failure is a resolved envelope and never a rejection, and the
\* promise of the guarded action rejects only when the handler has been
\* attempted and all retries are exhausted, or on cancellation (stated for
\* the guard with retries and a budget of at least 1).
C11_RejectsOnlyAfterHandler ==
  \A i \in DOMAIN runs :
    (cfg.variant = "retries" /\ cfg.retries >= 1 /\ Settled(runs[i]))
      => /\ EndedAtCheck(runs[i]) => runs[i].outcome.kind = "resolved"
         /\ runs[i].outcome.kind = "rejected"
              => \/ runs[i].calls = cfg.retries /\ runs[i].failures = cfg.retries
                 \/ aborted /\ runs[i].outcome = Rejected(AbortedError)

\* C11, amended: an invocation that ends at an authentication, role,
\* presence or validation check resolves to an envelope with an error and
\* has not invoked the handler; the promise of the guarded action rejects
\* only when the session lookup itself failed, when the handler was invoked
\* as many times as the budget allows and threw each time (the rejection is
\* what it threw last), when the signal was found set at the head of an
\* attempt (the Aborted error), or, under a budget of 0 or less, with "Max
\* retries reached".
C11_RejectsOnly ==
  \A i \in DOMAIN runs :
    (cfg.variant = "retries" /\ Settled(runs[i]))
      => /\ EndedAtCheck(runs[i])
              => /\ runs[i].outcome.kind = "resolved"
                 /\ Truthy(Get(runs[i].outcome.value, "error"))
                 /\ runs[i].calls = 0
         /\ runs[i].outcome.kind = "rejected"
              => \/ /\ ~HasSession(runs[i])
                    /\ runs[i].lookups = 1
                    /\ runs[i].calls = 0
                 \/ /\ cfg.retries >= 1
                    /\ runs[i].calls = cfg.retries
                    /\ runs[i].failures = cfg.retries
                    /\ runs[i].outcome = Rejected(runs[i].lastThrown)
                 \/ /\ aborted
                    /\ runs[i].calls < cfg.retries
                    /\ runs[i].outcome = Rejected(AbortedError)
                 \/ /\ cfg.retries <= 0
                    /\ runs[i].calls = 0
                    /\ runs[i].outcome = Rejected(Err("Max retries reached"))

\* the session lookup of an invocation failed and the run has ended with the
\* error of the lookup, the handler not having been invoked
C11_Witness ==
  \E i \in DOMAIN runs :
    /\ runs[i].pc = "done"
    /\ cfg.variant = "retries"
    /\ cfg.retries = MaxRetries
    /\ ~HasSession(runs[i])
    /\ runs[i].lookups = 1
    /\ runs[i].calls = 0
    /\ runs[i].outcome = Rejected(Err("fetch failed"))
    /\ error = Str("fetch failed")

\* withRetry has been called in the run
Entered(r) == r.firstHead # "none"

\* C12, as stated: a call of withRetry with a budget of at least 1 invokes
\* its operation at least once and at most budget times, whatever the state
\* of the cancellation signal.
C12_AtLeastOnce ==
  \A i \in DOMAIN runs :
    (Entered(runs[i]) /\ cfg.retries >= 1)
      => /\ runs[i].fnCalls >= 1
         /\ runs[i].fnCalls <= cfg.retries

\* C12, amended: a call of withRetry with a budget of at least 1 invokes
\* its operation at most budget times; it invokes it at least once when the
\* signal is not set at the moment withRetry is called, and not at all when
\* it is.
C12_InvocationBounds ==
  \A i \in DOMAIN runs :
    (Entered(runs[i]) /\ cfg.retries >= 1)
      => /\ runs[i].fnCalls <= cfg.retries
         /\ IF runs[i].signalAtEntry
            THEN runs[i].fnCalls = 0
            ELSE runs[i].fnCalls >= 1

\* withRetry was called with the signal not set, cancel() came during the
\* first attempt, which failed: one invocation under the largest budget
C12_Witness ==
  \E i \in DOMAIN runs :
    /\ runs[i].pc = "done"
    /\ cfg.retries = MaxRetries
    /\ Entered(runs[i])
    /\ ~runs[i].signalAtEntry
    /\ aborted
    /\ runs[i].fnCalls = 1
    /\ runs[i].failures = 1

\* withRetry rejects in this step of run i: it was called in the run and its
\* promise settles as rejected
WithRetryRejects(i) ==
  /\ i \in DOMAIN runs'
  /\ (i \in DOMAIN runs => runs[i].pc # "settled")
  /\ runs'[i].pc = "settled"
  /\ Entered(runs'[i])
  /\ runs'[i].outcome.kind = "rejected"

\* C13, as stated: when the signal is set before an attempt of withRetry
\* has succeeded (before the first attempt, between attempts, or during an
\* attempt that then fails, the last permitted one included) withRetry
\* rejects with the Aborted error, and it rejects with the last attempt's own
\* error only when no cancellation occurred (budget of at least 1).
C13_CancelRejectsAborted ==
  [][\A i \in Calls :
       (WithRetryRejects(i) /\ cfg.retries >= 1)
         => IF aborted
            THEN runs'[i].outcome = Rejected(AbortedError)
            ELSE runs'[i].outcome = Rejected(runs'[i].lastThrown)]_vars

\* C13, amended: withRetry (budget of at least 1) rejects with the last
\* attempt's own error exactly when the last permitted attempt has failed,
\* whether or not the signal was set during that attempt; every other
\* rejection is the Aborted error and happens with the signal set, before
\* the first attempt or after the failure of an attempt that was not the
\* last permitted one.
C13_AbortedUnlessLastAttempt ==
  [][\A i \in Calls :
       (WithRetryRejects(i) /\ cfg.retries >= 1)
         => IF runs'[i].failures = cfg.retries
            THEN runs'[i].outcome = Rejected(runs'[i].lastThrown)
            ELSE /\ aborted
                 /\ runs'[i].outcome = Rejected(AbortedError)]_vars

\* cancel() came during the first attempt of withRetry under the largest
\* budget, the attempt failed and the run has ended with the Aborted error
C13_Witness ==
  \E i \in DOMAIN runs :
    /\ runs[i].pc = "done"
    /\ cfg.retries = MaxRetries
    /\ ~runs[i].signalAtEntry
    /\ runs[i].failures = 1
    /\ runs[i].fnCalls = 1
    /\ runs[i].outcome = Rejected(AbortedError)
    /\ error = Str("Request aborted")

\* run i is in this step what it was, but for the backoff timers that fired
Untouched(i) == [runs'[i] EXCEPT !.elapsed = runs[i].elapsed] = runs[i]

\* C14: cancellation is not preemptive.  While a handler attempt is in
\* flight, cancel() leaves the attempt as it is; with the signal set, the
\* attempt ends only by resolving or throwing: if it resolves, its value is
\* the result of withRetry, and if it throws and was not the last permitted
\* attempt, no further attempt is started and withRetry rejects with the
\* Aborted error.
C14_NotPreemptive ==
  [][\A i \in DOMAIN runs :
       runs[i].pc = "handler"
         => /\ (~aborted /\ aborted') => Untouched(i)
            /\ (aborted /\ ~Untouched(i))
                 => /\ runs'[i].pc = "settled"
                    /\ runs'[i].calls = runs[i].calls
                    /\ runs'[i].fnCalls = runs[i].fnCalls
                    /\ runs'[i].failures = runs[i].failures
                         => /\ runs'[i].returned.kind = "resolved"
                            /\ runs'[i].outcome = Resolved(runs'[i].returned.value)
                    /\ (runs'[i].failures = runs[i].failures + 1
                           /\ runs[i].attempt < cfg.retries - 1)
                         => runs'[i].outcome = Rejected(AbortedError)]_vars

\* under a budget of 3 the first attempt failed, cancel() came during the
\* second attempt, which failed as well: no third attempt, Aborted error
C14_Witness ==
  \E i \in DOMAIN runs :
    /\ runs[i].pc = "done"
    /\ cfg.variant = "retries"
    /\ cfg.retries = 3
    /\ runs[i].calls = 2
    /\ runs[i].failures = 2
    /\ aborted
    /\ runs[i].outcome = Rejected(AbortedError)

\* C15: after a failed attempt of withRetry that is not the last permitted
\* one, the next attempt, and the cancellation check that precedes it, does
\* not start until the backoff timer set by that failure has fired: every
\* call of fn after the first, and every Aborted rejection that follows a
\* failure, comes after the timers of all the failures before it.
C15_BackoffBeforeNextAttempt ==
  \A i \in DOMAIN runs :
    /\ runs[i].fnCalls >= 2 => runs[i].elapsed >= runs[i].fnCalls - 1
    /\ (runs[i].failures >= 1 /\ runs[i].outcome = Rejected(AbortedError))
         => runs[i].elapsed >= runs[i].failures

\* C16: every handler invocation made by a guarded action receives, as its
\* second argument, the cancellation signal passed to that invocation of the
\* guarded action; with no schema and no input the handler is called as
\* h(undefined, signal).
C16_HandlerReceivesSignal ==
  \A i \in DOMAIN runs :
    cfg.variant = "retries"
      => \A j \in DOMAIN runs[i].args :
           /\ Len(runs[i].args[j]) = 2
           /\ runs[i].args[j][2] = Signal
           /\ (~SchemaPresent /\ ~InputPresent(runs[i]))
                => runs[i].args[j] = <<Undefined, Signal>>

\* C17: when validation succeeds, every handler attempt, the first and each
\* retry, is invoked with the value the schema produced (for the object
\* schema: the input without the keys the schema does not know), never with
\* the raw input.
C17_ValidatedValueOnly ==
  \A i \in DOMAIN runs :
    (SchemaPresent /\ InputPresent(runs[i]) /\ ~Rejects(runs[i].input))
      => \A j \in DOMAIN runs[i].args :
           /\ runs[i].args[j][1] = Parsed(runs[i].input)
           /\ runs[i].args[j][1].extra = FALSE

\* an input with a key the schema does not know passed validation and the
\* handler was attempted three times, each time with the stripped value
C17_Witness ==
  \E i \in DOMAIN runs :
    /\ runs[i].pc = "done"
    /\ cfg.variant = "retries"
    /\ cfg.schema = PostSchema
    /\ runs[i].input = Obj("Hello", "World", TRUE)
    /\ runs[i].calls = 3
    /\ \A j \in 1..3 : runs[i].args[j] = <<Obj("Hello", "World", FALSE)>>

SessionSteps == {"authentication", "role presence", "role membership"}
InputSteps == {"presence", "validation"}

C19_NoRole ==
  \A i \in DOMAIN runs :
    ( /\ HasSession(runs[i])
      /\ runs[i].session.authenticated
      /\ runs[i].session.role = Undefined )
      => /\ runs[i].outcome = Resolved(Envelope("No role found in session"))
         /\ runs[i].invCalls = 0

\* C19, amended: an invocation whose session is authenticated but carries
\* no role (absent or empty) resolves to exactly { error: "No role found in
\* session" } without invoking the handler, in the guard with retries
\* whatever allowedRoles is, and in the guard with isPrivate when
\* allowedRoles lists roles; when it lists none, the guard with isPrivate
\* lets the session through to the schema/input checks.
C19_NoRoleWhereChecked ==
  \A i \in DOMAIN runs :
    ( /\ HasSession(runs[i])
      /\ runs[i].session.authenticated
      /\ ~Truthy(runs[i].session.role) )
      => IF cfg.variant = "retries" \/ RolesGiven(cfg.allowedRoles)
         THEN /\ runs[i].outcome = Resolved(Envelope("No role found in session"))
              /\ runs[i].invCalls = 0
         ELSE /\ Authorized(runs[i])
              /\ runs[i].outcome # Resolved(Envelope("No role found in session"))

\* the guard with retries, built without allowedRoles, has answered an
\* authenticated session that has no role
C19_Witness ==
  \E i \in DOMAIN runs :
    /\ runs[i].pc = "done"
    /\ cfg.variant = "retries"
    /\ cfg.allowedRoles = Undefined
    /\ runs[i].session = [authenticated |-> TRUE, role |-> Undefined]
    /\ runs[i].outcome = Resolved(Envelope("No role found in session"))
    /\ runs[i].calls = 0
    /\ error = Str("No role found in session")

\* the envelopes of the authentication and authorization checks
SessionEnvelopes ==
  { Envelope("Un-authenticated"), Envelope("No role found in session"),
    Envelope("Un-authorized") }

\* C20: when allowedRoles is empty or absent, every session with
\* authenticated = true, whatever its role field, is sufficient: the
\* invocation gets no authentication or authorization error and proceeds to
\* the schema/input checks.
C20_AnyAuthenticatedSession ==
  \A i \in DOMAIN runs :
    ( /\ HasSession(runs[i])
      /\ runs[i].session.authenticated
      /\ ~RolesGiven(cfg.allowedRoles) )
      => /\ Authorized(runs[i])
         /\ \A v \in SessionEnvelopes : runs[i].outcome # Resolved(v)

\* execute resumes in run i in this step: the terminal transition of the run
Settles(i) ==
  /\ i \in DOMAIN runs
  /\ runs[i].pc = "settled"
  /\ runs'[i].pc = "done"

\* the callbacks the step adds to the log of run i
NewCallbacks(i) == SubSeq(runs'[i].log, Len(runs[i].log) + 1, Len(runs'[i].log))

C22_FailedThrown ==
  [][\A i \in Calls :
       (Settles(i) /\ runs[i].outcome.kind = "rejected")
         => LET e == runs[i].outcome.value
                m == IF e.tag = "Error" THEN e.message ELSE "An unknown error occurred"
            IN  /\ error' = Str(m)
                /\ e = AbortedError => error' = Str("Request aborted")
                /\ NewCallbacks(i) = << Callback("onError", Str(m)),
                                        Callback("onComplete", Undefined) >>
                /\ Count(runs'[i].log, "onError") = 1
                /\ Count(runs'[i].log, "onSuccess") = 0
                /\ toasts[runs[i].toast] = Toast("loading", LoadingMessage)
                /\ toasts' = [toasts EXCEPT ![runs[i].toast] = Toast("error", m)]]_vars

\* the handler threw a value that is no Error on its last permitted attempt
\* and the run has ended with the generic message
C22_Witness ==
  \E i \in DOMAIN runs :
    /\ runs[i].pc = "done"
    /\ cfg.variant = "retries"
    /\ cfg.retries = MaxRetries
    /\ runs[i].calls = MaxRetries
    /\ runs[i].outcome = Rejected(HandlerNonError(MaxRetries))
    /\ error = Str("An unknown error occurred")
    /\ toasts[runs[i].toast] = Toast("error", "An unknown error occurred")
    /\ Count(runs[i].log, "onError") = 1

\* C24: cancel() only sets the signal of the hook: the step leaves
\* isPending, data, error and fieldErrors as they are, invokes no callback
\* and touches no notification; the runs go on as they were.
C24_CancelOnlySignals ==
  [][(~aborted /\ aborted')
       => UNCHANGED <<isPending, data, error, fieldErrors, toastId, toasts, runs, started>>]_vars

\* cancel() was called during the first handler attempt of a run: the run
\* is still pending, its loading notification showing, no callback but
\* onStart
C24_Witness ==
  \E i \in DOMAIN runs :
    /\ aborted
    /\ runs[i].pc = "handler"
    /\ ~runs[i].signalAtEntry
    /\ runs[i].calls = 1
    /\ isPending
    /\ error = Undefined
    /\ toasts[runs[i].toast] = Toast("loading", LoadingMessage)
    /\ runs[i].log = << Callback("onStart", Undefined) >>

\* the guarded action resolved with an envelope that contains no error: the
\* terminal transition of the run is Pending to Succeeded
Succeeds(i) ==
  /\ Settles(i)
  /\ runs[i].outcome.kind = "resolved"
  /\ "error" \notin DOMAIN runs[i].outcome.value

\* C25: on every Pending to Succeeded transition the hook stores the
\* envelope's data as its data state (undefined when the envelope has none)
\* and its fieldErrors, and invokes onSuccess with exactly the envelope's
\* data, for every data value the handler can return, falsy values such as 0
\* included.
C25_StoresEnvelopeData ==
  [][\A i \in Calls :
       Succeeds(i)
         => LET result == runs[i].outcome.value
            IN  /\ data' = Get(result, "data")
                /\ fieldErrors' = Get(result, "fieldErrors")
                /\ NewCallbacks(i) = << Callback("onSuccess", Get(result, "data")),
                                        Callback("onComplete", Undefined) >>]_vars

\* C26: a guarded action that resolves with a void outcome (no data, no
\* error, no fieldErrors) is a success with no payload: the terminal
\* transition invokes onSuccess once, with no data, and no onError, shows a
\* success notification in place of the run's loading notification, and
\* leaves error and data as they were (one execute call on a new hook).
C26_VoidIsSuccess ==
  [][\A i \in Calls :
       (Settles(i) /\ runs[i].outcome = Resolved(Undefined))
         => /\ NewCallbacks(i) = << Callback("onSuccess", Undefined),
                                    Callback("onComplete", Undefined) >>
            /\ Count(runs'[i].log, "onSuccess") = 1
            /\ Count(runs'[i].log, "onError") = 0
            /\ toasts' = [toasts EXCEPT ![runs[i].toast] = Toast("success", SuccessMessage)]
            /\ error' = error
            /\ data' = data
            /\ fieldErrors' = Undefined
            /\ ~isPending']_vars

\* the handler returned nothing and the run has ended Succeeded
C26_Witness ==
  \E i \in DOMAIN runs :
    /\ runs[i].pc = "done"
    /\ runs[i].returned = Resolved(Undefined)
    /\ runs[i].outcome = Resolved(Undefined)
    /\ runs[i].log = << Callback("onStart", Undefined), Callback("onSuccess", Undefined),
                        Callback("onComplete", Undefined) >>
    /\ toasts[runs[i].toast] = Toast("success", SuccessMessage)
    /\ error = Undefined
    /\ ~isPending

\* the schema/input checks of the guards with isPrivate let the input
\* through: no schema and no (truthy) input, or a schema that accepts the
\* input; for an action built from {action, actionType}: an action without
\* inputs, or a schema that accepts the input
InputPasses(input) ==
  IF cfg.variant = "actionType"
  THEN ~SchemaPresent \/ ~Rejects(input)
  ELSE \/ ~SchemaPresent /\ ~Truthy(input)
       \/ SchemaPresent /\ Truthy(input) /\ ~Rejects(input)

\* C29: in the builds with isPrivate, a guarded action created with
\* isPrivate = false makes no session lookup and no authentication or role
\* check, whatever allowedRoles is: every invocation reaches the handler if
\* and only if its input passes the schema/input checks; with isPrivate =
\* true every invocation starts with the session lookup and checks, before
\* any input check and any handler call.
C29_PublicSkipsSession ==
  \A i \in DOMAIN runs :
    LET r == runs[i]
    IN  cfg.variant # "retries"
          => /\ ~cfg.isPrivate
                  => /\ r.lookups = 0
                     /\ ~HasSession(r)
                     /\ r.pc # "fetch"
                     /\ \A j \in DOMAIN r.steps : r.steps[j] \notin SessionSteps
                     /\ \A v \in SessionEnvelopes : r.outcome # Resolved(v)
                     /\ r.fnCalls >= 1 => (r.calls >= 1 <=> InputPasses(r.input))
             /\ cfg.isPrivate
                  => /\ (r.fnCalls >= 1 /\ r.pc # "fetch") => r.lookups >= 1
                     /\ r.steps # << >> => r.steps[1] = "authentication"
                     /\ r.invCalls >= 1 => (HasSession(r) /\ r.session.authenticated)

\* a public action built with allowedRoles = ["admin"] has run its handler
\* without any session lookup
C29_Witness ==
  \E i \in DOMAIN runs :
    /\ runs[i].pc = "done"
    /\ cfg.variant = "isPrivate"
    /\ ~cfg.isPrivate
    /\ cfg.allowedRoles = Roles({"admin"})
    /\ cfg.schema = PostSchema
    /\ runs[i].input = Obj("Hello", "World", FALSE)
    /\ runs[i].lookups = 0
    /\ runs[i].calls = 1
    /\ runs[i].outcome = Resolved([data |-> [tag |-> "object", id |-> "1"]])

\* C23: once cancel() has been called on a hook, every later execute call
\* works with the already-aborted signal and fails: it never invokes the
\* handler and never succeeds (no onSuccess; it ends rejected or with an
\* error envelope), for every input, session and build.
C23_ExecuteAfterCancelFails ==
  \A i \in DOMAIN runs :
    LET r == runs[i]
    IN  r.abortedAtStart
          => /\ r.calls = 0
             /\ r.args = << >>
             /\ r.returned = NoOutcome
             /\ Count(r.log, "onSuccess") = 0
             /\ r.outcome # NoOutcome
                  => \/ r.outcome.kind = "rejected"
                     \/ Truthy(Get(r.outcome.value, "error"))
             /\ r.pc = "done" => Count(r.log, "onError") = 1

\* cancel() was called, then execute with a valid input; the session passed
\* every check, and the run ended with "Request aborted" without a handler
\* call, the retry budget being positive
C23_Witness ==
  \E i \in DOMAIN runs :
    /\ runs[i].pc = "done"
    /\ cfg.variant = "retries"
    /\ cfg.retries >= 1
    /\ cfg.schema = PostSchema
    /\ runs[i].abortedAtStart
    /\ runs[i].input = Obj("Hello", "World", FALSE)
    /\ runs[i].lookups = 1
    /\ Authorized(runs[i])
    /\ runs[i].calls = 0
    /\ runs[i].outcome = Rejected(AbortedError)
    /\ runs[i].log = << Callback("onStart", Undefined),
                        Callback("onError", Str("Request aborted")),
                        Callback("onComplete", Undefined) >>

\* a run of execute is in flight from the call until its finally block has run
InFlight(r) == r.pc # "done"

\* C27: isPending tells that the action is in progress: it is true at every
\* moment at which at least one execute run has started and not yet
\* settled, overlapping calls included, and false only when no run is in
\* flight.
C27_PendingWhileInFlight ==
  isPending <=> \E i \in DOMAIN runs : InFlight(runs[i])

\* C28: each execute run shows one loading notification under a handle of
\* its own, and its terminal notification replaces exactly that one: a run
\* that has settled has left no loading notification under its handle, and
\* once every started run has settled no loading notification remains, also
\* when the calls overlap.
C28_OwnLoadingReplaced ==
  /\ \A i \in DOMAIN runs :
       /\ runs[i].toast \in DOMAIN toasts
       /\ \A j \in DOMAIN runs : j # i => runs[j].toast # runs[i].toast
       /\ InFlight(runs[i]) => toasts[runs[i].toast].type = "loading"
       /\ ~InFlight(runs[i]) => toasts[runs[i].toast].type \in {"success", "error"}
  /\ (\A i \in DOMAIN runs : ~InFlight(runs[i]))
       => \A t \in DOMAIN toasts : toasts[t].type # "loading"

\* the error a settled outcome stands for: none for a success, the
\* envelope's error, or the message derived from the thrown value
ErrorOf(outcome) ==
  IF outcome.kind = "rejected" THEN Str(errorMessage(outcome.value))
  ELSE IF Truthy(Get(outcome.value, "error")) THEN Get(outcome.value, "error")
  ELSE Undefined

\* C30: over any sequence of execute calls on one hook the error state
\* describes the outcome of the run that settled last: undefined when that
\* run succeeded, its error otherwise; an error left by an earlier failed
\* run does not stay after a later success.
C30_ErrorOfLastSettled ==
  [][\A i \in DOMAIN runs :
       Settles(i) => error' = ErrorOf(runs[i].outcome)]_vars

\* C31: whatever the guarded action does (resolves with any envelope or
\* with nothing, rejects with an Error or with any other value), the promise
\* execute returned resolves and never rejects; a rejection has been caught
\* and turned into the error state (one execute call on a new hook, the
\* callbacks not throwing).
C31_ExecuteNeverRejects ==
  \A i \in DOMAIN runs :
    LET r == runs[i]
    IN  /\ r.promise.kind # "rejected"
        /\ r.pc = "done" <=> r.promise = Resolved(Undefined)
        /\ (r.pc = "done" /\ r.outcome.kind = "rejected")
             => /\ error = Str(errorMessage(r.outcome.value))
                /\ Count(r.log, "onError") = 1

\* the handler threw a value that is no Error on its last attempt, the
\* guarded action rejected with it, and execute resolved with the generic
\* message as error state
C31_Witness ==
  \E i \in DOMAIN runs :
    /\ runs[i].pc = "done"
    /\ runs[i].calls >= 1
    /\ runs[i].outcome = Rejected(HandlerNonError(runs[i].calls))
    /\ runs[i].promise = Resolved(Undefined)
    /\ error = Str("An unknown error occurred")
    /\ ~isPending

\* C32: within one execute run the callbacks fire in the order onStart,
\* then exactly one of onSuccess and onError, then onComplete: onStart has
\* fired before the guarded action is invoked and is the only callback while
\* the run is in flight, and a run that has ended has fired exactly three
\* callbacks, the last being onComplete.
C32_CallbackOrder ==
  \A i \in DOMAIN runs :
    LET r == runs[i]
    IN  /\ r.log # << >>
        /\ r.log[1] = Callback("onStart", Undefined)
        /\ Count(r.log, "onStart") = 1
        /\ r.pc # "done" => Len(r.log) = 1
        /\ r.pc = "done"
             => /\ Len(r.log) = 3
                /\ r.log[2].cb \in {"onSuccess", "onError"}
                /\ r.log[3] = Callback("onComplete", Undefined)
                /\ Count(r.log, "onSuccess") + Count(r.log, "onError") = 1
                /\ Count(r.log, "onComplete") = 1

\* a run whose handler failed once and then returned data has ended with
\* onStart, onSuccess, onComplete
C32_Witness ==
  \E i \in DOMAIN runs :
    /\ runs[i].pc = "done"
    /\ runs[i].failures = 1
    /\ runs[i].calls = 2
    /\ runs[i].outcome = Resolved([data |-> [tag |-> "object", id |-> "1"]])
    /\ runs[i].log = << Callback("onStart", Undefined),
                        Callback("onSuccess", [tag |-> "object", id |-> "1"]),
                        Callback("onComplete", Undefined) >>

\* C33: only thrown failures are retried.  A handler attempt that resolves
\* with an error envelope ends the invocation: the guarded action resolves
\* with that envelope and the handler is not invoked again, so the attempts
\* made are the thrown failures plus one (exactly one when nothing threw),
\* whatever the retry budget; likewise in the hook that retries a server
\* action, a server action that resolves with an error envelope is not
\* called again.
C33_EnvelopeNotRetried ==
  \A i \in DOMAIN runs :
    LET r == runs[i]
    IN  /\ (r.returned.kind = "resolved" /\ Truthy(Get(r.returned.value, "error")))
             => /\ r.pc \in {"settled", "done"}
                /\ r.outcome = r.returned
                /\ r.fnCalls = r.failures + 1
                /\ cfg.variant = "retries" => r.calls = r.failures + 1
                /\ cfg.variant # "retries" => r.invCalls = 1
        /\ ( /\ cfg.variant # "retries"
             /\ r.outcome.kind = "resolved"
             /\ Truthy(Get(r.outcome.value, "error")) )
             => r.fnCalls = r.failures + 1

\* with a retry budget of 3 the handler resolved with { error: "x" } on its
\* first attempt: one invocation, the envelope returned
C33_Witness ==
  \E i \in DOMAIN runs :
    /\ runs[i].pc = "done"
    /\ cfg.variant = "retries"
    /\ cfg.retries = 3
    /\ runs[i].returned = Resolved([error |-> Str("x")])
    /\ runs[i].outcome = Resolved([error |-> Str("x")])
    /\ runs[i].calls = 1
    /\ runs[i].failures = 0
    /\ error = Str("x")

\* C34: in the reconciliation of schema and input, an input is present
\* when a value other than undefined was supplied, falsy values such as 0
\* included: every invocation that reaches the reconciliation with such an
\* input goes on to validate it when the guard has a schema, and returns
\* { error: "Schema is required when data is provided" } without a handler
\* call when it has none.
C34_SuppliedInputIsPresent ==
  \A i \in DOMAIN runs :
    LET r == runs[i]
    IN  ( /\ cfg.variant \in {"retries", "isPrivate"}
          /\ Authorized(r)
          /\ InputPresent(r) )
          => /\ SchemaPresent => \E j \in DOMAIN r.steps : r.steps[j] = "validation"
             /\ ~SchemaPresent
                  => /\ r.outcome = Resolved(Envelope("Schema is required when data is provided"))
                     /\ r.invCalls = 0

\* two execute calls overlap when one was made while the other was in flight
Overlap(i, j) == i \in runs[j].during \/ j \in runs[i].during

ResolvedWithData(r) ==
  /\ r.outcome.kind = "resolved"
  /\ "data" \in DOMAIN r.outcome.value
  /\ "error" \notin DOMAIN r.outcome.value

\* run i is the last of the started runs to settle, after a run j that
\* overlapped it, and both resolved with data
LastOfTwoSettles(i, j) ==
  /\ i # j
  /\ Overlap(i, j)
  /\ Settles(i)
  /\ \A k \in DOMAIN runs : k # i => runs[k].pc = "done"
  /\ ResolvedWithData(runs[i])
  /\ ResolvedWithData(runs[j])

\* C35: when two execute calls on one hook overlap and both resolve with
\* data, the data state after both have settled is the data of the run that
\* settled last, whichever of the two was started last.
C35_LastSettledWins ==
  [][\A i, j \in DOMAIN runs :
       LastOfTwoSettles(i, j) => data' = runs[i].outcome.value.data]_vars

\* C36: the Failed (thrown) transition of a run changes, of the hook's
\* state fields, only error and isPending: data and fieldErrors stay as they
\* were, so what an earlier run stored remains after a later run was
\* aborted or used up its retries.
C36_ThrownKeepsDataAndFieldErrors ==
  [][\A i \in DOMAIN runs :
       (Settles(i) /\ runs[i].outcome.kind = "rejected")
         => /\ data' = data
            /\ fieldErrors' = fieldErrors
            /\ error' = Str(errorMessage(runs[i].outcome.value))
            /\ ~isPending']_vars

\* an earlier run stored the fieldErrors of the handler's envelope; a later
\* run, started after it ended, used up its retries and has ended Failed
\* (thrown): the fieldErrors of the earlier run are still there
C36_Witness ==
  \E i, j \in DOMAIN runs :
    /\ i < j
    /\ runs[j].during = {}
    /\ runs[i].pc = "done"
    /\ runs[i].outcome = Resolved([error |-> Str("x"), fieldErrors |-> [title |-> <<"taken">>]])
    /\ runs[j].pc = "done"
    /\ runs[j].calls = cfg.retries
    /\ runs[j].outcome = Rejected(HandlerError(cfg.retries))
    /\ fieldErrors = [title |-> <<"taken">>]
    /\ error = Str("handler failed")
    /\ ~isPending

\* the handler attempts a budget allows
Budget == IF cfg.retries > 0 THEN cfg.retries ELSE 0

\* C37: every invocation of a guarded action terminates.  With the session
\* lookup and every handler attempt settling, the promise of the guarded
\* action settles, after at most as many handler attempts as the budget
\* allows (none for a budget of 0 or less), also for a
\* handler that fails every time and whenever cancel() is called; the loop
\* variable never passes the budget.
C37_InvocationTerminates ==
  /\ [](\A i \in DOMAIN runs :
          /\ runs[i].calls <= Budget
          /\ runs[i].fnCalls <= Budget
          /\ runs[i].failures <= Budget
          /\ runs[i].attempt <= Budget)
  /\ \A i \in Calls :
       (started >= i) ~> (i \in DOMAIN runs /\ runs[i].outcome # NoOutcome)

\* the handler failed on every one of MaxRetries attempts and the guarded
\* action has rejected with the last failure
C37_Witness ==
  \E i \in DOMAIN runs :
    /\ cfg.variant = "retries"
    /\ cfg.retries = MaxRetries
    /\ runs[i].calls = MaxRetries
    /\ runs[i].failures = MaxRetries
    /\ runs[i].pc = "settled"
    /\ runs[i].outcome = Rejected(HandlerError(MaxRetries))

\* C38: withRetry called with a retry budget of 0 or less invokes the
\* operation zero times and rejects with the error "Max retries reached",
\* not with the Aborted error and not with a result, whether the
\* cancellation signal is set or not.
C38_NoBudgetMaxRetries ==
  \A i \in DOMAIN runs :
    LET r == runs[i]
    IN  (Entered(r) /\ cfg.retries <= 0)
          => /\ r.firstHead = "max"
             /\ r.fnCalls = 0
             /\ r.calls = 0
             /\ r.attempt = 0
             /\ r.outcome = Rejected(Err("Max retries reached"))

\* withRetry was entered with a budget of 0 and the signal already set, and
\* the run has ended with "Max retries reached"
C38_Witness ==
  \E i \in DOMAIN runs :
    /\ runs[i].pc = "done"
    /\ cfg.retries = 0
    /\ Entered(runs[i])
    /\ runs[i].signalAtEntry
    /\ runs[i].fnCalls = 0
    /\ runs[i].outcome = Rejected(Err("Max retries reached"))
    /\ error = Str("Max retries reached")

====
